---- MODULE Spec2Model ----
(***************************************************************************)
(* hydrodata.Station: construction of a Station from a station id or from  *)
(* a coordinate (get_coords / get_id), followed by get_watershed, which    *)
(* resolves the NLDI network, sums the drainage area and caches the basin  *)
(* geometry in <data_dir>/<station_id>/geometry.gpkg.                      *)
(*                                                                         *)
(* Several callers construct Stations concurrently against one data_dir.   *)
(* Each Python statement that touches the services or the disk is a step.  *)
(* Longitudes and latitudes are integers in units of half a degree, so the *)
(* 0.5 degree half-width of the search box is 1.  Station ids are fixed-   *)
(* width digit strings; they are modelled by the number they spell, whose  *)
(* order is their lexicographic order.  Altitudes are feet on input and    *)
(* 1e-4 m after conversion.                                                *)
(***************************************************************************)
EXTENDS Integers, Sequences, FiniteSets, TLC

VARIABLES
    pc,            \* position of each caller in Station.__init__
    args,          \* arguments of the pending Station(...) call
    station_id,    \* self.station_id
    coords,        \* self.coords
    lonlat,        \* (self.lon, self.lat)
    altitude,      \* self.altitude
    datum,         \* self.datum
    name,          \* self.name
    data_dir,      \* self.data_dir (the station id naming the directory)
    resp,          \* get_id: the data lines of the response r.text
    watershed,     \* self.watershed: the station id given to NLDI
    comid,         \* self.comid
    tributaries,   \* self.tributaries.index.values
    main_channel,  \* self.main_channel
    drainage_area, \* self.drainage_area
    geometry,      \* self.geometry
    basin,         \* get_watershed: local geom fetched from the service
    err,           \* the exception that ended the call, if any
    dirs,          \* station directories present under data_dir
    cache,         \* content of geometry.gpkg per station directory
    fetched,       \* history: the call asked the service for the basin
    wrote,         \* history: the call wrote geometry.gpkg
    hit,           \* history: what geom_file.exists() answered
    prior,         \* history: calls for the same id finished before this one
    seed           \* history: which argument the caller supplied

vars == << pc, args, station_id, coords, lonlat, altitude, datum, name,
           data_dir, resp, watershed, comid, tributaries, main_channel,
           drainage_area, geometry, basin, err, dirs, cache, fetched, wrote,
           hit, prior, seed >>

----------------------------------------------------------------------------
(* Bounds and the world the services describe                              *)

Procs == {1, 2}

MaxTrace == 2          \* longest tributary trace the service returns
MaxLon == 8            \* query longitudes are 1..MaxLon
HalfWidth == 1         \* 0.5 degree, in half degrees
FeetToMeter == 3048    \* 0.3048, in 1e-4 m per foot

None == 0              \* Python None for ids and numbers
NoCoords == << >>      \* Python None for a coordinate pair
NaN == -1              \* a column the row does not have
EmptyStr == -2         \* an empty rdb field
Undefined == -3        \* an attribute of self that is not assigned yet
NoGeometry == [polygon |-> Undefined]
NoFile == [exists |-> FALSE]
CorruptFile == [exists |-> TRUE, ok |-> FALSE]

NumSites == 6
Sites == 1 .. NumSites
UnknownId == Cardinality(Sites) + 1   \* an id the service does not know
Reaches == {1, 2}
QueryLats == {2, 3, 5}

\* The stations the metadata service knows, one line of rdb text each.
\* 1 and 2 are coincident, 3 is as far from (3,2) as they are, 4 has no
\* altitude, 5 has the character # in its name, 6 has empty coordinate
\* fields; further ones are like 4.
SiteRow(s) ==
    [ full |-> TRUE, site_no |-> s,
      dec_long_va |-> CASE s = 1 -> 2 [] s = 2 -> 2 [] s = 3 -> 4 [] s = 5 -> 8
                        [] s = 6 -> EmptyStr [] OTHER -> 6,
      dec_lat_va |-> IF s = 6 THEN EmptyStr ELSE 2,
      alt_va |-> CASE s = 1 -> 100 [] s = 2 -> 250 [] s = 3 -> 30 [] s = 5 -> 40
                   [] s = 6 -> 50 [] OTHER -> EmptyStr,
      alt_datum_cd |-> IF s = 3 THEN "NAVD88" ELSE "NGVD29",
      station_nm |-> CASE s = 1 -> "A" [] s = 2 -> "B" [] s = 3 -> "C" [] s = 5 -> "E #2"
                       [] s = 6 -> "F" [] OTHER -> "D",
      hash |-> (s = 5) ]

\* Where the service holds station s to be when it answers a box query.
SiteAt(s) == IF s = 6 THEN << 6, 4 >> ELSE << SiteRow(s).dec_long_va, SiteRow(s).dec_lat_va >>

\* The row that the empty last line of the rdb text turns into: it has the
\* first column only.
BlankRow ==
    [ full |-> FALSE, site_no |-> NaN, dec_long_va |-> NaN, dec_lat_va |-> NaN,
      alt_va |-> NaN, alt_datum_cd |-> "NaN", station_nm |-> "NaN", hash |-> FALSE ]

Perms(S) ==
    { f \in [1 .. Cardinality(S) -> S] :
        \A i, j \in 1 .. Cardinality(S) : f[i] = f[j] => i = j }

----------------------------------------------------------------------------
(* get_id                                                                  *)

bbox(c) == << c[1] - HalfWidth, c[2] - HalfWidth, c[1] + HalfWidth, c[2] + HalfWidth >>

InBox(b, s) ==
    /\ b[1] <= SiteAt(s)[1] /\ SiteAt(s)[1] <= b[3]
    /\ b[2] <= SiteAt(s)[2] /\ SiteAt(s)[2] <= b[4]

\* What the site service may answer a box query: the stations of the box in
\* any order, then the empty last line; the empty last line alone when the
\* box holds no station.
BoxResponses(b) ==
    LET S == { s \in Sites : InBox(b, s) }
    IN  { [ i \in 1 .. Cardinality(S) + 1 |->
              IF i <= Cardinality(S) THEN SiteRow(p[i]) ELSE BlankRow ] : p \in Perms(S) }

\* r_list = [l.split("\t") for l in r_text if "#" not in l]
NoHash(r) == ~r.hash
r_list(lines) == SelectSeq(lines, NoHash)

HasColumns(rows) == \E i \in 1 .. Len(rows) : rows[i].full

IsFull(r) == r.full
HasAltitude(r) == r.alt_va # EmptyStr
HasCoords(r) == r.dec_long_va # EmptyStr /\ r.dec_lat_va # EmptyStr

\* df = DataFrame(r_dict).dropna(), then the rows with alt_va == "" dropped.
DropNa(rows) == IF HasColumns(rows) THEN SelectSeq(rows, IsFull) ELSE rows
DropEmptyAlt(rows) == SelectSeq(rows, HasAltitude)

Point(r) == << r.dec_long_va, r.dec_lat_va >>
Dist2(a, b) == (a[1] - b[1]) * (a[1] - b[1]) + (a[2] - b[2]) * (a[2] - b[2])

\* ops.nearest_points(point, union)[1]: a point of the union at the least
\* distance; which one of several equally near points is GEOS's choice.
NearestPoints(point, df) ==
    { Point(df[i]) : i \in { i \in 1 .. Len(df) :
        \A j \in 1 .. Len(df) : Dist2(point, Point(df[i])) <= Dist2(point, Point(df[j])) } }

\* gdf[gdf.geom_equals(nearest)].index[0]
FirstEqual(df, nearest) ==
    LET I == { i \in 1 .. Len(df) : Point(df[i]) = nearest }
    IN  df[CHOOSE i \in I : \A j \in I : i <= j]

ToMeter(ft) == ft * FeetToMeter

----------------------------------------------------------------------------
(* NLDI and the cache file                                                 *)

ComidOf(s) == 100 + s
BasinOf(c) == << [polygon |-> c] >>
MainOf(c) == << c >>
AreaSqKm(r) == IF r = 1 THEN 3 ELSE 5

Traces == UNION { [1 .. n -> Reaches] : n \in 0 .. MaxTrace }

Range(f) == { f[i] : i \in DOMAIN f }

\* The list of ids without its repetitions, in the order of first listing.
RECURSIVE Distinct(_)
Distinct(ids) ==
    IF ids = << >> THEN << >>
    ELSE LET rest == Distinct(SubSeq(ids, 1, Len(ids) - 1))
             last == ids[Len(ids)]
         IN  IF last \in Range(rest) THEN rest ELSE Append(rest, last)

Catchment(r) == [comid |-> r, areasqkm |-> AreaSqKm(r)]

\* NLDI.get_nhdplus_byid(comids): the frames the client may answer the id
\* list it is handed with.  The service holds one catchment per reach id;
\* whether an id listed twice comes back as one row or as two is the
\* client's doing, and both answers are kept.
get_nhdplus_byid(comids) ==
    { [ i \in 1 .. Len(Distinct(comids)) |-> Catchment(Distinct(comids)[i]) ],
      [ i \in 1 .. Len(comids) |-> Catchment(comids[i]) ] }

\* self.flowlines.areasqkm.sum(): the sum over the rows of the frame.
RECURSIVE AreaSum(_)
AreaSum(flowlines) ==
    IF flowlines = << >> THEN 0
    ELSE flowlines[1].areasqkm + AreaSum(Tail(flowlines))

\* geom.to_file(geom_file) and gpd.read_file(geom_file)
to_file(gdf) == [exists |-> TRUE, ok |-> TRUE, layer |-> gdf, crs |-> "epsg:4326"]
read_file(f) == f.layer
FirstGeometry(gdf) == gdf[1]

----------------------------------------------------------------------------

Init ==
    /\ pc = [p \in Procs |-> "idle"]
    /\ args = [p \in Procs |-> << None, NoCoords >>]
    /\ station_id = [p \in Procs |-> Undefined]
    /\ coords = [p \in Procs |-> NoCoords]
    /\ lonlat = [p \in Procs |-> NoCoords]
    /\ altitude = [p \in Procs |-> Undefined]
    /\ datum = [p \in Procs |-> ""]
    /\ name = [p \in Procs |-> ""]
    /\ data_dir = [p \in Procs |-> Undefined]
    /\ resp = [p \in Procs |-> << >>]
    /\ watershed = [p \in Procs |-> Undefined]
    /\ comid = [p \in Procs |-> Undefined]
    /\ tributaries = [p \in Procs |-> << >>]
    /\ main_channel = [p \in Procs |-> << >>]
    /\ drainage_area = [p \in Procs |-> Undefined]
    /\ geometry = [p \in Procs |-> NoGeometry]
    /\ basin = [p \in Procs |-> << >>]
    /\ err = [p \in Procs |-> ""]
    /\ dirs = {}
    /\ cache = [s \in Sites |-> NoFile]
    /\ fetched = [p \in Procs |-> FALSE]
    /\ wrote = [p \in Procs |-> FALSE]
    /\ hit = [p \in Procs |-> "unknown"]
    /\ prior = [p \in Procs |-> {}]
    /\ seed = [p \in Procs |-> ""]

ArgIds == {None} \cup Sites \cup {UnknownId}
ArgCoords == {NoCoords} \cup { << x, y >> : x \in 1 .. MaxLon, y \in QueryLats }

\* A caller evaluates Station(start, end, station_id=i, coords=c).
Call(p) ==
    /\ pc[p] = "idle"
    /\ \E i \in ArgIds, c \in ArgCoords : args' = [args EXCEPT ![p] = << i, c >>]
    /\ pc' = [pc EXCEPT ![p] = "init"]
    /\ UNCHANGED << station_id, coords, lonlat, altitude, datum, name, data_dir,
                    resp, watershed, comid, tributaries, main_channel,
                    drainage_area, geometry, basin, err, dirs, cache, fetched,
                    wrote, hit, prior, seed >>

\* Mutant of SeedOf: a coordinate wins over an id given with it.
SeedOfCoordsFirst(i, c) ==
    IF c # NoCoords THEN "coords"
    ELSE IF i # None THEN "id"
    ELSE "error"

\* The branch __init__ takes on its two arguments.
SeedOf(i, c) ==
    IF i = None /\ c # NoCoords THEN "coords"
    ELSE IF c = NoCoords /\ i # None THEN "id"
    ELSE "error"

\* Which of its two arguments the caller gave.
Supplied(i, c) ==
    CASE i # None /\ c # NoCoords -> "both"
      [] i = None /\ c = NoCoords -> "neither"
      [] i = None -> "coords"
      [] OTHER -> "id"

StationInit(p) ==
    /\ pc[p] = "init"
    /\ LET i == args[p][1]
           c == args[p][2]
       IN  CASE SeedOf(i, c) = "coords" ->
                  /\ coords' = [coords EXCEPT ![p] = c]
                  /\ pc' = [pc EXCEPT ![p] = "get_id"]
                  /\ UNCHANGED << station_id, err >>
             [] SeedOf(i, c) = "id" ->
                  /\ station_id' = [station_id EXCEPT ![p] = i]
                  /\ pc' = [pc EXCEPT ![p] = "get_coords"]
                  /\ UNCHANGED << coords, err >>
             [] OTHER ->
                  /\ err' = [err EXCEPT ![p] = "RuntimeError"]
                  /\ pc' = [pc EXCEPT ![p] = "failed"]
                  /\ UNCHANGED << station_id, coords >>
    /\ args' = [args EXCEPT ![p] = << None, NoCoords >>]
    /\ seed' = [seed EXCEPT ![p] = Supplied(args[p][1], args[p][2])]
    /\ UNCHANGED << lonlat, altitude, datum, name, data_dir, resp,
                    watershed, comid, tributaries, main_channel, drainage_area,
                    geometry, basin, dirs, cache, fetched, wrote, hit, prior >>

\* get_id, up to r = self.session.get(url, params=payload).  An exception of
\* the session reaches "except requests.HTTPError", where the name requests
\* is not bound.
GetIdRequest(p) ==
    /\ pc[p] = "get_id"
    /\ \/ /\ \E r \in BoxResponses(bbox(coords[p])) : resp' = [resp EXCEPT ![p] = r]
          /\ pc' = [pc EXCEPT ![p] = "get_id_select"]
          /\ UNCHANGED err
       \/ /\ err' = [err EXCEPT ![p] = "NameError"]
          /\ pc' = [pc EXCEPT ![p] = "failed"]
          /\ UNCHANGED resp
    /\ UNCHANGED << args, station_id, coords, lonlat, altitude, datum, name,
                    data_dir, watershed, comid, tributaries, main_channel,
                    drainage_area, geometry, basin, dirs, cache, fetched, wrote,
                    hit, prior, seed >>

\* The error get_id means to raise when it finds no station ("No USGS
\* station found within a 50 km radius").
NoStationError == "HTTPError"

\* How the rest of get_id ends on the rows of the response: df.alt_va on a
\* frame without that column, astype("float") on an empty coordinate field,
\* nearest_points on an empty union.
GetIdOutcome(rows) ==
    IF ~HasColumns(rows) THEN "AttributeError"
    ELSE IF \E i \in 1 .. Len(DropEmptyAlt(DropNa(rows))) :
                ~HasCoords(DropEmptyAlt(DropNa(rows))[i]) THEN "ValueError"
    ELSE IF Len(DropEmptyAlt(DropNa(rows))) = 0 THEN "ValueError"
    ELSE "ok"

\* get_id from the parsing of the response to its last assignment.
GetIdSelect(p) ==
    /\ pc[p] = "get_id_select"
    /\ LET df == DropEmptyAlt(DropNa(r_list(resp[p])))
       IN  IF GetIdOutcome(r_list(resp[p])) = "ok"
           THEN \E nearest \in NearestPoints(coords[p], df) :
                  LET station == FirstEqual(df, nearest)
                  IN  /\ station_id' = [station_id EXCEPT ![p] = station.site_no]
                      /\ coords' = [coords EXCEPT ![p] = Point(station)]
                      /\ altitude' = [altitude EXCEPT ![p] = ToMeter(station.alt_va)]
                      /\ datum' = [datum EXCEPT ![p] = station.alt_datum_cd]
                      /\ name' = [name EXCEPT ![p] = station.station_nm]
                      /\ pc' = [pc EXCEPT ![p] = "is_dir"]
                      /\ UNCHANGED err
           ELSE /\ err' = [err EXCEPT ![p] = GetIdOutcome(r_list(resp[p]))]
                /\ pc' = [pc EXCEPT ![p] = "failed"]
                /\ UNCHANGED << station_id, coords, altitude, datum, name >>
    /\ resp' = [resp EXCEPT ![p] = << >>]
    /\ UNCHANGED << args, lonlat, data_dir, watershed, comid, tributaries,
                    main_channel, drainage_area, geometry, basin, dirs, cache,
                    fetched, wrote, hit, prior, seed >>

\* What the site service answers a query for one id.
SiteResponse(i) == IF i \in Sites THEN << SiteRow(i), BlankRow >> ELSE << BlankRow >>

\* get_coords: station = dict(zip(r_list[0], r_list[2])) and the four
\* assignments from it, in their order.
GetCoords(p) ==
    /\ pc[p] = "get_coords"
    /\ \/ LET station == r_list(SiteResponse(station_id[p]))[1]
          IN  IF ~station.full
              THEN /\ err' = [err EXCEPT ![p] = "KeyError"]
                   /\ pc' = [pc EXCEPT ![p] = "failed"]
                   /\ UNCHANGED << coords, altitude, datum, name >>
              ELSE IF ~HasCoords(station)
              THEN /\ err' = [err EXCEPT ![p] = "ValueError"]
                   /\ pc' = [pc EXCEPT ![p] = "failed"]
                   /\ UNCHANGED << coords, altitude, datum, name >>
              ELSE IF station.alt_va = EmptyStr
              THEN /\ coords' = [coords EXCEPT ![p] = Point(station)]
                   /\ err' = [err EXCEPT ![p] = "ValueError"]
                   /\ pc' = [pc EXCEPT ![p] = "failed"]
                   /\ UNCHANGED << altitude, datum, name >>
              ELSE /\ coords' = [coords EXCEPT ![p] = Point(station)]
                   /\ altitude' = [altitude EXCEPT ![p] = ToMeter(station.alt_va)]
                   /\ datum' = [datum EXCEPT ![p] = station.alt_datum_cd]
                   /\ name' = [name EXCEPT ![p] = station.station_nm]
                   /\ pc' = [pc EXCEPT ![p] = "is_dir"]
                   /\ UNCHANGED err
       \/ /\ err' = [err EXCEPT ![p] = "RequestException"]
          /\ pc' = [pc EXCEPT ![p] = "failed"]
          /\ UNCHANGED << coords, altitude, datum, name >>
    /\ UNCHANGED << args, station_id, lonlat, data_dir, resp, watershed, comid,
                    tributaries, main_channel, drainage_area, geometry, basin,
                    dirs, cache, fetched, wrote, hit, prior, seed >>

\* data_dir = Path(data_dir, self.station_id)
DataDir(p) == station_id[p]

\* self.lon, self.lat = self.coords; self.data_dir = ...; is_dir()
IsDir(p) ==
    /\ pc[p] = "is_dir"
    /\ lonlat' = [lonlat EXCEPT ![p] = coords[p]]
    /\ data_dir' = [data_dir EXCEPT ![p] = DataDir(p)]
    /\ pc' = [pc EXCEPT ![p] = IF DataDir(p) \in dirs THEN "nldi" ELSE "makedirs"]
    /\ UNCHANGED << args, station_id, coords, altitude, datum, name, resp,
                    watershed, comid, tributaries, main_channel, drainage_area,
                    geometry, basin, err, dirs, cache, fetched, wrote, hit, prior, seed >>

\* os.makedirs(self.data_dir).  An OSError (the directory was made meanwhile,
\* or cannot be made) enters the handler, whose message reads the unbound
\* name d.
MakeDirs(p) ==
    /\ pc[p] = "makedirs"
    /\ \/ /\ data_dir[p] \notin dirs
          /\ dirs' = dirs \cup {data_dir[p]}
          /\ pc' = [pc EXCEPT ![p] = "nldi"]
          /\ UNCHANGED err
       \/ /\ err' = [err EXCEPT ![p] = "NameError"]
          /\ pc' = [pc EXCEPT ![p] = "failed"]
          /\ UNCHANGED dirs
    /\ UNCHANGED << args, station_id, coords, lonlat, altitude, datum, name,
                    data_dir, resp, watershed, comid, tributaries, main_channel,
                    drainage_area, geometry, basin, cache, fetched, wrote, hit,
                    prior, seed >>

----------------------------------------------------------------------------
(* get_watershed                                                           *)

\* The calls that completed for station id s.
Done(s) == { q \in Procs : pc[q] = "done" /\ station_id[q] = s }

\* Mutant of NLDIStation: the station_id argument of __init__, which is
\* None when the caller gave a coordinate.
NLDIStationFromArgs(p) == IF seed[p] = "id" THEN station_id[p] ELSE None

\* The station id that get_watershed hands to NLDI.
NLDIStation(p) == station_id[p]

\* self.watershed = NLDI(station_id=self.station_id)
NLDI(p) ==
    /\ pc[p] = "nldi"
    /\ prior' = [prior EXCEPT ![p] = Done(station_id[p])]
    /\ watershed' = [watershed EXCEPT ![p] = NLDIStation(p)]
    /\ pc' = [pc EXCEPT ![p] = "comid"]
    /\ UNCHANGED << args, station_id, coords, lonlat, altitude, datum, name,
                    data_dir, resp, comid, tributaries, main_channel,
                    drainage_area, geometry, basin, err, dirs, cache, fetched,
                    wrote, hit, seed >>

\* self.comid = self.watershed.comid, the lookup of the network id.
Comid(p) ==
    /\ pc[p] = "comid"
    /\ \/ /\ comid' = [comid EXCEPT ![p] = ComidOf(watershed[p])]
          /\ pc' = [pc EXCEPT ![p] = "network"]
          /\ UNCHANGED err
       \/ /\ err' = [err EXCEPT ![p] = "RequestException"]
          /\ pc' = [pc EXCEPT ![p] = "failed"]
          /\ UNCHANGED comid
    /\ UNCHANGED << args, station_id, coords, lonlat, altitude, datum, name,
                    data_dir, resp, watershed, tributaries, main_channel,
                    drainage_area, geometry, basin, dirs, cache, fetched, wrote,
                    hit, prior, seed >>

\* self.tributaries = get_river_network(navigation="upstreamTributaries")
Tributaries(p) ==
    /\ pc[p] = "network"
    /\ \/ /\ \E t \in Traces : tributaries' = [tributaries EXCEPT ![p] = t]
          /\ pc' = [pc EXCEPT ![p] = "main"]
          /\ UNCHANGED err
       \/ /\ err' = [err EXCEPT ![p] = "RequestException"]
          /\ pc' = [pc EXCEPT ![p] = "failed"]
          /\ UNCHANGED tributaries
    /\ UNCHANGED << args, station_id, coords, lonlat, altitude, datum, name,
                    data_dir, resp, watershed, comid, main_channel,
                    drainage_area, geometry, basin, dirs, cache, fetched, wrote,
                    hit, prior, seed >>

\* self.main_channel = get_river_network(navigation="upstreamMain")
MainChannel(p) ==
    /\ pc[p] = "main"
    /\ \/ /\ main_channel' = [main_channel EXCEPT ![p] = MainOf(comid[p])]
          /\ pc' = [pc EXCEPT ![p] = "flowlines"]
          /\ UNCHANGED err
       \/ /\ err' = [err EXCEPT ![p] = "RequestException"]
          /\ pc' = [pc EXCEPT ![p] = "failed"]
          /\ UNCHANGED main_channel
    /\ UNCHANGED << args, station_id, coords, lonlat, altitude, datum, name,
                    data_dir, resp, watershed, comid, tributaries,
                    drainage_area, geometry, basin, dirs, cache, fetched, wrote,
                    hit, prior, seed >>

\* self.flowlines: get_nhdplus_byid handed self.tributaries.index.values,
\* the trace as listed.
FlowlinesOf(trace) == get_nhdplus_byid(trace)

\* self.flowlines = get_nhdplus_byid(...); self.drainage_area = ...sum()
Flowlines(p) ==
    /\ pc[p] = "flowlines"
    /\ \/ /\ \E flowlines \in FlowlinesOf(tributaries[p]) :
                drainage_area' = [drainage_area EXCEPT ![p] = AreaSum(flowlines)]
          /\ pc' = [pc EXCEPT ![p] = "exists"]
          /\ UNCHANGED err
       \/ /\ err' = [err EXCEPT ![p] = "RequestException"]
          /\ pc' = [pc EXCEPT ![p] = "failed"]
          /\ UNCHANGED drainage_area
    /\ UNCHANGED << args, station_id, coords, lonlat, altitude, datum, name,
                    data_dir, resp, watershed, comid, tributaries, main_channel,
                    geometry, basin, dirs, cache, fetched, wrote, hit, prior, seed >>

\* Mutant of GeomFile: one geometry.gpkg for all stations.
GeomFileShared(p) == 1

\* geom_file = self.data_dir.joinpath("geometry.gpkg")
GeomFile(p) == data_dir[p]

\* Mutant of AfterExists: the basin is fetched whether the file exists or not.
AfterExistsAlwaysFetch(found) == "fetch"

\* The branch get_watershed takes on geom_file.exists().
AfterExists(found) == IF found THEN "read" ELSE "fetch"

\* if geom_file.exists():
Exists(p) ==
    /\ pc[p] = "exists"
    /\ hit' = [hit EXCEPT ![p] = IF cache[GeomFile(p)].exists THEN "hit" ELSE "miss"]
    /\ pc' = [pc EXCEPT ![p] = AfterExists(cache[GeomFile(p)].exists)]
    /\ UNCHANGED << args, station_id, coords, lonlat, altitude, datum, name,
                    data_dir, resp, watershed, comid, tributaries, main_channel,
                    drainage_area, geometry, basin, err, dirs, cache, fetched,
                    wrote, prior, seed >>

\* Mutant of CachedGeometry: the path that reads the file returns without
\* assigning self.geometry.
GeometryNotAssigned(f) == NoGeometry

\* self.geometry on the path that reads the file.
CachedGeometry(f) == FirstGeometry(read_file(f))

\* Mutant of AfterRead: an unreadable file is taken for a miss.
AfterReadAsMiss(f) == IF f.ok THEN "done" ELSE "fetch"

\* How the read of the file ends: an unreadable file raises.
AfterRead(f) == IF f.ok THEN "done" ELSE "failed"

\* gdf = gpd.read_file(geom_file); self.geometry = ...; return, and the
\* print that ends __init__.
ReadCache(p) ==
    /\ pc[p] = "read"
    /\ pc' = [pc EXCEPT ![p] = AfterRead(cache[GeomFile(p)])]
    /\ IF cache[GeomFile(p)].ok
       THEN /\ geometry' = [geometry EXCEPT ![p] = CachedGeometry(cache[GeomFile(p)])]
            /\ UNCHANGED err
       ELSE /\ err' = [err EXCEPT ![p] = "DriverError"]
            /\ UNCHANGED geometry
    /\ UNCHANGED << args, station_id, coords, lonlat, altitude, datum, name,
                    data_dir, resp, watershed, comid, tributaries, main_channel,
                    drainage_area, basin, dirs, cache, fetched, wrote, hit, prior, seed >>

\* geom = self.watershed.basin; self.geometry = geom.values[0]
FetchBasin(p) ==
    /\ pc[p] = "fetch"
    /\ fetched' = [fetched EXCEPT ![p] = TRUE]
    /\ \/ /\ basin' = [basin EXCEPT ![p] = BasinOf(comid[p])]
          /\ geometry' = [geometry EXCEPT ![p] = FirstGeometry(BasinOf(comid[p]))]
          /\ pc' = [pc EXCEPT ![p] = "write"]
          /\ UNCHANGED err
       \/ /\ err' = [err EXCEPT ![p] = "RequestException"]
          /\ pc' = [pc EXCEPT ![p] = "failed"]
          /\ UNCHANGED << basin, geometry >>
    /\ UNCHANGED << args, station_id, coords, lonlat, altitude, datum, name,
                    data_dir, resp, watershed, comid, tributaries, main_channel,
                    drainage_area, dirs, cache, wrote, hit, prior, seed >>

\* What a to_file that raises may leave at the path: what was there, or a
\* file that is not a readable GeoPackage.  Nothing removes it.
FailedWrite(f) == {f, CorruptFile}

\* geom.to_file(geom_file), first part: the file is created at its final
\* path, in place, and is not a readable GeoPackage until its content is in.
WriteCreate(p) ==
    /\ pc[p] = "write"
    /\ \/ /\ cache' = [cache EXCEPT ![GeomFile(p)] = CorruptFile]
          /\ pc' = [pc EXCEPT ![p] = "write_content"]
          /\ UNCHANGED err
       \/ /\ \E f \in FailedWrite(cache[GeomFile(p)]) :
                cache' = [cache EXCEPT ![GeomFile(p)] = f]
          /\ err' = [err EXCEPT ![p] = "DriverError"]
          /\ pc' = [pc EXCEPT ![p] = "failed"]
    /\ UNCHANGED << args, station_id, coords, lonlat, altitude, datum, name,
                    data_dir, resp, watershed, comid, tributaries, main_channel,
                    drainage_area, geometry, basin, dirs, fetched, wrote, hit,
                    prior, seed >>

\* geom.to_file(geom_file), second part: the content, then the return and
\* the print that ends __init__.
WriteCache(p) ==
    /\ pc[p] = "write_content"
    /\ \/ /\ cache' = [cache EXCEPT ![GeomFile(p)] = to_file(basin[p])]
          /\ wrote' = [wrote EXCEPT ![p] = TRUE]
          /\ pc' = [pc EXCEPT ![p] = "done"]
          /\ UNCHANGED err
       \/ /\ \E f \in FailedWrite(cache[GeomFile(p)]) :
                cache' = [cache EXCEPT ![GeomFile(p)] = f]
          /\ err' = [err EXCEPT ![p] = "DriverError"]
          /\ pc' = [pc EXCEPT ![p] = "failed"]
          /\ UNCHANGED wrote
    /\ UNCHANGED << args, station_id, coords, lonlat, altitude, datum, name,
                    data_dir, resp, watershed, comid, tributaries, main_channel,
                    drainage_area, geometry, basin, dirs, fetched, hit, prior, seed >>

----------------------------------------------------------------------------

Next ==
    \E p \in Procs :
        \/ Call(p)
        \/ StationInit(p)
        \/ GetIdRequest(p)
        \/ GetIdSelect(p)
        \/ GetCoords(p)
        \/ IsDir(p)
        \/ MakeDirs(p)
        \/ NLDI(p)
        \/ Comid(p)
        \/ Tributaries(p)
        \/ MainChannel(p)
        \/ Flowlines(p)
        \/ Exists(p)
        \/ ReadCache(p)
        \/ FetchBasin(p)
        \/ WriteCreate(p)
        \/ WriteCache(p)

Spec == Init /\ [][Next]_vars

----------------------------------------------------------------------------
(* Properties                                                              *)

InWatershed ==
    {"comid", "network", "main", "flowlines", "exists", "read", "fetch", "write",
     "write_content", "done"}

\* The step is one of caller p.
Moves(p) == pc'[p] # pc[p]

\* C2: a Station(...) call given both an id and a coordinate, or neither,
\* fails with the argument error (RuntimeError in the code) and assigns
\* neither self.station_id nor self.coords; a call given exactly one of the
\* two goes on to get_coords or get_id.
C2_ExactlyOneSeed ==
    [][ \A p \in Procs :
          (pc[p] = "init" /\ Moves(p)) =>
            LET one == (args[p][1] = None) # (args[p][2] = NoCoords)
            IN  /\ one => pc'[p] \in {"get_id", "get_coords"} /\ err'[p] = ""
                /\ ~one => /\ pc'[p] = "failed"
                           /\ err'[p] = "RuntimeError"
                           /\ station_id'[p] = Undefined
                           /\ coords'[p] = NoCoords ]_vars

C2_Witness ==
    \E p, q \in Procs :
        /\ seed[p] = "both" /\ pc[p] = "failed" /\ err[p] = "RuntimeError"
        /\ seed[q] = "neither" /\ pc[q] = "failed" /\ err[q] = "RuntimeError"

\* The rows of a response that are whole and have an altitude and both
\* coordinates.
ValidRows(rows) ==
    { i \in 1 .. Len(rows) :
        /\ rows[i].full /\ rows[i].alt_va # EmptyStr
        /\ rows[i].dec_long_va # EmptyStr /\ rows[i].dec_lat_va # EmptyStr }

\* Row i of the response is a valid one at the least distance from c.
IsNearest(rows, c, i) ==
    /\ i \in ValidRows(rows)
    /\ \A j \in ValidRows(rows) : Dist2(c, Point(rows[i])) <= Dist2(c, Point(rows[j]))

\* The fields get_id assigned are those of row i.
Returned(p, rows, i) ==
    /\ station_id'[p] = rows[i].site_no
    /\ coords'[p] = Point(rows[i])
    /\ altitude'[p] = rows[i].alt_va * FeetToMeter
    /\ datum'[p] = rows[i].alt_datum_cd
    /\ name'[p] = rows[i].station_nm

\* C3: with a valid candidate in the response, get_id returns a
\* valid candidate at the least planar distance from the query, and among
\* the candidates coincident with it the one with the smallest id, whatever
\* the order of the rows.
C3_NearestValidCandidate ==
    [][ \A p \in Procs :
          (pc[p] = "get_id_select" /\ Moves(p) /\ ValidRows(resp[p]) # {}) =>
            /\ pc'[p] = "is_dir"
            /\ \E i \in ValidRows(resp[p]) :
                 /\ IsNearest(resp[p], coords[p], i)
                 /\ Returned(p, resp[p], i)
                 /\ \A j \in ValidRows(resp[p]) :
                      Point(resp[p][j]) = Point(resp[p][i])
                         => resp[p][i].site_no <= resp[p][j].site_no ]_vars

\* C4: when the response holds no valid candidate (no rows, or only rows
\* without an altitude, without coordinates or without their columns),
\* get_id fails with its no-station error and assigns no field of a station.
C4_NoCandidateFails ==
    [][ \A p \in Procs :
          (pc[p] = "get_id_select" /\ Moves(p) /\ ValidRows(resp[p]) = {}) =>
            /\ pc'[p] = "failed"
            /\ err'[p] = NoStationError
            /\ station_id'[p] = Undefined
            /\ altitude'[p] = Undefined
            /\ datum'[p] = "" /\ name'[p] = ""
            /\ data_dir'[p] = Undefined /\ watershed'[p] = Undefined ]_vars

\* C6: once get_watershed runs, the id given to NLDI and the id naming the
\* cache directory are self.station_id, a station the service knows, and
\* the coordinates, altitude, datum and name are that station's; for a call
\* seeded with a coordinate this is the station get_id resolved.
C6_ResolvedIdUsed ==
    \A p \in Procs :
        pc[p] \in InWatershed =>
            /\ station_id[p] \in Sites
            /\ watershed[p] = station_id[p]
            /\ data_dir[p] = station_id[p]
            /\ pc[p] # "comid" => comid[p] = ComidOf(station_id[p])
            /\ coords[p] = Point(SiteRow(station_id[p]))
            /\ lonlat[p] = coords[p]
            /\ altitude[p] = SiteRow(station_id[p]).alt_va * FeetToMeter
            /\ datum[p] = SiteRow(station_id[p]).alt_datum_cd
            /\ name[p] = SiteRow(station_id[p]).station_nm

C6_Witness ==
    \E p \in Procs : seed[p] = "coords" /\ pc[p] = "done" /\ station_id[p] = 3

\* C7: every cache file that exists is the whole file a call that
\* completed wrote, or is in the hands of a call that is still writing it; a
\* call that failed leaves no file of its own behind.
C7_NoPartialEntry ==
    \A s \in Sites :
        cache[s].exists =>
            \/ \E p \in Procs :
                  /\ pc[p] = "done" /\ wrote[p] /\ data_dir[p] = s
                  /\ cache[s] = to_file(basin[p])
            \/ \E p \in Procs : pc[p] = "write_content" /\ data_dir[p] = s

\* C8: a call that found the cache file and cannot read it fails with the
\* read error; it has fetched no basin and written no file, and the file is
\* as it was.
C8_CorruptReadFails ==
    [][ \A p \in Procs :
          (pc[p] = "read" /\ Moves(p) /\ ~cache[data_dir[p]].ok) =>
            /\ pc'[p] = "failed"
            /\ err'[p] = "DriverError"
            /\ ~fetched'[p] /\ ~wrote'[p]
            /\ cache' = cache ]_vars

C8_Witness ==
    \E p \in Procs :
        /\ hit[p] = "hit" /\ pc[p] = "failed" /\ err[p] = "DriverError"
        /\ cache[data_dir[p]] = CorruptFile /\ ~fetched[p]

\* C9: a call fetches the basin only after geom_file.exists() answered no;
\* a call that returns on that path has written the file; a call that found
\* the file neither fetches nor writes.
C9_CheckFetchWriteOrder ==
    \A p \in Procs :
        /\ fetched[p] => hit[p] = "miss"
        /\ wrote[p] => hit[p] = "miss" /\ fetched[p]
        /\ pc[p] \in {"read", "fetch", "write", "write_content"} => hit[p] # "unknown"
        /\ (pc[p] = "done" /\ hit[p] = "miss") => wrote[p] /\ cache[data_dir[p]].exists
        /\ (pc[p] = "done" /\ hit[p] = "hit") => ~wrote[p] /\ ~fetched[p]

C9_Witness ==
    \E p, q \in Procs :
        /\ pc[p] = "done" /\ hit[p] = "miss" /\ wrote[p]
        /\ pc[q] = "done" /\ hit[q] = "hit" /\ data_dir[q] = data_dir[p]

\* C1: a call for a station id that starts get_watershed after another call
\* for that id has completed fetches no basin, and when it completes its
\* geometry is the one the earlier call returned.
C1_CacheIdempotence ==
    \A q \in Procs : \A p \in prior[q] :
        /\ ~fetched[q]
        /\ pc[q] = "done" => geometry[q] = geometry[p]

C1_Witness ==
    \E q \in Procs : \E p \in prior[q] :
        /\ pc[q] = "done" /\ hit[q] = "hit" /\ wrote[p]
        /\ geometry[q] = [polygon |-> ComidOf(station_id[q])]

\* Two calls for one id that both missed the cache and both completed.
Raced(p, q) ==
    /\ p # q /\ station_id[p] = station_id[q]
    /\ pc[p] = "done" /\ pc[q] = "done"
    /\ hit[p] = "miss" /\ hit[q] = "miss"

\* C10: two calls for one id that both missed the cache both fetch and both
\* write, and when both have completed the file is a whole geometry equal to
\* the one each returned; a call changes no cache file but its own
\* station's, and the geometry it read is its own station's.
C10_BenignRace ==
    [][ /\ \A p, q \in Procs :
             Raced(p, q)' =>
                /\ fetched'[p] /\ fetched'[q] /\ wrote'[p] /\ wrote'[q]
                /\ cache'[station_id'[p]].ok
                /\ cache'[station_id'[p]].layer[1] = geometry'[p]
                /\ geometry'[p] = geometry'[q]
        /\ \A s \in Sites :
             cache'[s] # cache[s] =>
                \E p \in Procs :
                    /\ Moves(p) /\ station_id[p] = s /\ hit[p] = "miss"
                    /\ pc[p] \in {"write", "write_content"}
        /\ \A p \in Procs :
             (pc[p] = "read" /\ pc'[p] = "done") =>
                geometry'[p] = cache[station_id[p]].layer[1] ]_vars

C10_Witness ==
    \E p, q \in Procs : Raced(p, q) /\ wrote[p] /\ wrote[q] /\ cache[station_id[p]].ok

====
